---- MODULE Spec2Model ----
(***************************************************************************)
(* Model of the overweight API's background cache refresh (app.py):        *)
(* the process-wide _cache dictionary guarded by _cache_lock, the durable  *)
(* backup file CACHE_FILE, refresh_cache() run by the self re-arming       *)
(* schedule_refresh() timer chain and by force_refresh() threads, and the  *)
(* two read handlers overweights() and health().                           *)
(*                                                                         *)
(* Python values: None and a missing dictionary key are the empty tuple    *)
(* <<>>, a present value v is <<v>>.  A text is a tuple of characters.     *)
(***************************************************************************)
EXTENDS Integers, Sequences, FiniteSets, TLC

None == <<>>
Some(v) == <<v>>

\* ------------------------------------------------------------------ bounds
\* refresh_cache() executions started over the whole run
MaxRefresh == 2
\* process restarts (the file survives, memory does not)
MaxRestart == 1
\* longest row sequence the aggregation is applied to on its own
MaxRows == 2

REFRESH_INTERVAL_HOURS == 6

\* --------------------------------------------------------------- processes
Sched == "sched"
Forced == {"force1", "force2"}
Threads == {Sched} \cup Forced
Readers == {"overweights", "health"}
Free == "free"

\* ------------------------------------------------------------- aggregation
RECURSIVE LStrip(_)
LStrip(s) == IF s # <<>> /\ Head(s) = " " THEN LStrip(Tail(s)) ELSE s

RECURSIVE RStrip(_)
RStrip(s) ==
    IF s # <<>> /\ s[Len(s)] = " " THEN RStrip(SubSeq(s, 1, Len(s) - 1)) ELSE s

\* str.strip()
Strip(s) == RStrip(LStrip(s))

\* float(v) if v is not None else 0
Coerce(v) == IF v # None THEN v[1] ELSE 0

\* week_start.strftime("%Y-%m-%d"): the text of a date, tagged as text
FormatWeek(w) == <<"date", w>>

Entry(row) ==
    [week_start     |-> FormatWeek(row.week_start),
     avg_overweight |-> Coerce(row.avg_overweight),
     avg_value      |-> Coerce(row.avg_value),
     avg_target     |-> Coerce(row.avg_target),
     count          |-> row.count]

\* the loop of refresh_cache over the fetched rows, data being the dict so far
RECURSIVE AggregateFrom(_, _)
AggregateFrom(rows, data) ==
    IF rows = <<>> THEN data
    ELSE LET row     == Head(rows)
             product == Strip(row.product[1])
             grown   == IF product \in DOMAIN data
                        THEN data
                        ELSE data @@ (product :> <<>>)
         IN  AggregateFrom(Tail(rows),
                           [grown EXCEPT ![product] = Append(@, Entry(row))])

\* an aggregation in which a later row of a product replaces the earlier ones
AggregateLastRowWins(rows) ==
    LET all == AggregateFrom(rows, <<>>)
    IN  [k \in DOMAIN all |-> <<all[k][Len(all[k])]>>]

Aggregate(rows) == AggregateFrom(rows, <<>>)

\* product.strip() raises AttributeError on a None product
AggregateRaises(rows) == \E i \in 1..Len(rows) : rows[i].product = None

\* len(data)
DictLen(data) == Cardinality(DOMAIN data)

\* ------------------------------------------------- what the source returns
Row(w, p, ow, val, tgt, n) ==
    [week_start |-> w, product |-> p, avg_overweight |-> ow,
     avg_value |-> val, avg_target |-> tgt, count |-> n]

BaconRows ==
    << Row(1, Some(<<"B", " ">>), Some(1), Some(50), Some(49), 10),
       Row(1, Some(<<"B">>), None, Some(49), Some(49), 8) >>

BadRows == << Row(1, None, Some(1), Some(50), Some(49), 10) >>

SourceResults == {BaconRows, BadRows}

\* the rows cur.fetchall() can return: product keys with and without
\* padding, with a blank inside, or NULL, each numeric column NULL or a number
ProductKeys == {Some(<<"B">>), Some(<<"B", " ">>), Some(<<" ", "B">>),
                Some(<<"C", " ", "D">>), None}

RowValues ==
    {Row(1, p, ow, val, tgt, 10) :
        p \in ProductKeys, ow \in {None, Some(1)},
        val \in {None, Some(50)}, tgt \in {None, Some(49)}}

RowSeqs == UNION {[1..n -> RowValues] : n \in 0..MaxRows}

\* ------------------------------------- the cache-less overweights (part_000)
\* the entry of part_000: avg_ow, avg_val and avg_tgt are stored as fetched
EntryUncached(row) ==
    [week_start     |-> FormatWeek(row.week_start),
     avg_overweight |-> row.avg_overweight,
     avg_value      |-> row.avg_value,
     avg_target     |-> row.avg_target,
     count          |-> row.count]

\* the loop of part_000's overweights() over the fetched rows
RECURSIVE AggregateUncachedFrom(_, _)
AggregateUncachedFrom(rows, data) ==
    IF rows = <<>> THEN data
    ELSE LET row     == Head(rows)
             product == Strip(row.product[1])
             grown   == IF product \in DOMAIN data
                        THEN data
                        ELSE data @@ (product :> <<>>)
         IN  AggregateUncachedFrom(Tail(rows),
                 [grown EXCEPT ![product] = Append(@, EntryUncached(row))])

AggregateUncached(rows) == AggregateUncachedFrom(rows, <<>>)

\* --------------------------------------------------------------- snapshots
\* _cache = {"data": None, "refreshed_at": None, "status": "initializing"}
InitCache ==
    [data |-> None, refreshed_at |-> None, status |-> "initializing",
     product_count |-> None, error |-> None]

\* an ok snapshot stamped by a clock that runs backwards
OkSnapshotBackwardStamp(data, refreshed_at) ==
    [data |-> Some(data), refreshed_at |-> Some(0 - refreshed_at), status |-> "ok",
     product_count |-> Some(DictLen(data)), error |-> None]

\* {"data": data, "refreshed_at": refreshed_at, "status": "ok",
\*  "product_count": len(data)}
OkSnapshot(data, refreshed_at) ==
    [data |-> Some(data), refreshed_at |-> Some(refreshed_at), status |-> "ok",
     product_count |-> Some(DictLen(data)), error |-> None]

\* the stale snapshot without the failure message
StaleSnapshotNoError(cached, e) ==
    [data |-> cached.data, refreshed_at |-> cached.refreshed_at,
     status |-> "stale", product_count |-> cached.product_count,
     error |-> None]

\* {**cached, "status": "stale", "error": str(e)}
StaleSnapshot(cached, e) ==
    [data |-> cached.data, refreshed_at |-> cached.refreshed_at,
     status |-> "stale", product_count |-> cached.product_count,
     error |-> Some(e)]

\* the error snapshot without the failure message
ErrorSnapshotNoMessage(e) ==
    [data |-> None, refreshed_at |-> None, status |-> "error",
     product_count |-> None, error |-> None]

\* {"data": None, "refreshed_at": None, "status": "error", "error": str(e)}
ErrorSnapshot(e) ==
    [data |-> None, refreshed_at |-> None, status |-> "error",
     product_count |-> None, error |-> Some(e)]

\* a file object whose product_count is left out
FileObjectNoCount(data, refreshed_at) ==
    [data |-> Some(data), refreshed_at |-> Some(refreshed_at),
     product_count |-> None]

\* the object json.dump writes to CACHE_FILE
FileObject(data, refreshed_at) ==
    [data |-> Some(data), refreshed_at |-> Some(refreshed_at),
     product_count |-> Some(DictLen(data))]

\* CACHE_FILE: absent, partial (truncated or half written, not parsable) or
\* valid (one complete JSON object)
AbsentFile == [state |-> "absent", content |-> None]
PartialFile == [state |-> "partial", content |-> None]
ValidFile(obj) == [state |-> "valid", content |-> Some(obj)]

\* os.path.exists(CACHE_FILE)
Exists(f) == f.state # "absent"

\* _cache.update(new): keys new does not carry keep their old value
ReplaceMerge(old, new) ==
    [new EXCEPT !.product_count = IF @ = None THEN old.product_count ELSE @,
                !.error = IF @ = None THEN old.error ELSE @]

\* _cache = new, the rebinding of the global under the lock
Replace(old, new) == new

\* ------------------------------------------------------------------- state
VARIABLES
    cache,        \* _cache
    cache_lock,   \* holder of _cache_lock, or Free
    cache_file,   \* CACHE_FILE
    clock,        \* datetime.utcnow()
    pc,           \* position of each refresh thread
    exc,          \* the exception a thread caught (str(e)), or "none"
    rows,         \* local rows
    data,         \* local data (Some) once aggregated
    refreshed_at, \* local refreshed_at
    sawFile,      \* result of the thread's os.path.exists
    cached,       \* local cached, the loaded file
    overlap,      \* another thread wrote the file since this one opened it
    dumped,       \* history: the object this execution finished writing
    lastWrite,    \* history: the snapshot of the latest replacement of _cache
    published,    \* history: the snapshots _cache has held in this process
    rpc,          \* position of each read handler
    owCache,      \* overweights(): local cache
    hStatus,      \* health(): local cache_status
    hRefreshed,   \* health(): local refreshed_at
    nRefresh, nRestart,
    concurrent,   \* history: two refreshes have run at once in this process
    reply         \* the reply of the cache-less overweights() of part_000

locals == <<exc, rows, data, refreshed_at, sawFile, cached, overlap, dumped>>
threadVars == <<pc, locals>>
readerVars == <<rpc, owCache, hStatus, hRefreshed>>
vars == <<cache, cache_lock, cache_file, clock, threadVars, lastWrite,
          published, readerVars, nRefresh, nRestart, concurrent, reply>>

Finished == {"done", "raised"}
NotRunning == {"idle", "armed"} \cup Finished

\* the locals of threads that have not run
Fresh(v) == [t \in Threads |-> v]

\* module import: _cache and _cache_lock are created, refresh_thread starts
BootPc == [t \in Threads |-> IF t = Sched THEN "query" ELSE "idle"]

Init ==
    /\ cache = InitCache
    /\ cache_lock = Free
    /\ pc = BootPc
    /\ exc = Fresh("none")
    /\ rows = Fresh(<<>>)
    /\ data = Fresh(None)
    /\ refreshed_at = Fresh(None)
    /\ sawFile = Fresh(FALSE)
    /\ cached = Fresh(None)
    /\ overlap = Fresh(FALSE)
    /\ dumped = Fresh(None)
    /\ lastWrite = InitCache
    /\ published = {InitCache}
    /\ rpc = [r \in Readers |-> "idle"]
    /\ owCache = None
    /\ hStatus = None
    /\ hRefreshed = None
    /\ cache_file = AbsentFile
    /\ clock = 0
    /\ nRefresh = 1
    /\ nRestart = 0
    /\ concurrent = FALSE
    /\ reply = None

\* ---------------------------------------------------------- refresh_cache
\* the frame of refresh_cache() is gone: thread t keeps no locals
Forget(t) ==
    /\ exc' = [exc EXCEPT ![t] = "none"]
    /\ rows' = [rows EXCEPT ![t] = <<>>]
    /\ data' = [data EXCEPT ![t] = None]
    /\ refreshed_at' = [refreshed_at EXCEPT ![t] = None]
    /\ sawFile' = [sawFile EXCEPT ![t] = FALSE]
    /\ cached' = [cached EXCEPT ![t] = None]
    /\ overlap' = [overlap EXCEPT ![t] = FALSE]
    /\ dumped' = [dumped EXCEPT ![t] = None]

\* a thread enters refresh_cache()
Enter(t) ==
    /\ pc' = [pc EXCEPT ![t] = "query"]
    /\ nRefresh' = nRefresh + 1
    /\ concurrent' = (concurrent \/ \E u \in Threads \ {t} : pc[u] \notin NotRunning)
    /\ UNCHANGED <<locals, reply>>

\* the except clause is entered with exception e
Raise(t, e) ==
    /\ exc' = [exc EXCEPT ![t] = e]
    /\ pc' = [pc EXCEPT ![t] = "handler"]

\* get_connection(), cur.execute(QUERY), cur.fetchall(): rows or an exception
QuerySource(t) ==
    /\ pc[t] = "query"
    /\ \/ /\ Raise(t, "SourceUnavailable")
          /\ rows' = rows
       \/ /\ \E r \in SourceResults : rows' = [rows EXCEPT ![t] = r]
          /\ pc' = [pc EXCEPT ![t] = "aggregate"]
          /\ exc' = exc
    /\ UNCHANGED <<cache, cache_lock, cache_file, clock, data, refreshed_at,
                   sawFile, cached, overlap, dumped, lastWrite, published, readerVars,
                   nRefresh, nRestart, concurrent, reply>>

\* the grouping loop, then refreshed_at = utcnow()
AggregateRows(t) ==
    /\ pc[t] = "aggregate"
    /\ rows' = [rows EXCEPT ![t] = <<>>]
    /\ IF AggregateRaises(rows[t])
       THEN /\ Raise(t, "AttributeError")
            /\ UNCHANGED <<data, refreshed_at, clock>>
       ELSE /\ data' = [data EXCEPT ![t] = Some(Aggregate(rows[t]))]
            /\ clock' = clock + 1
            /\ refreshed_at' = [refreshed_at EXCEPT ![t] = Some(clock + 1)]
            /\ pc' = [pc EXCEPT ![t] = "save_open"]
            /\ exc' = exc
    /\ UNCHANGED <<cache, cache_lock, cache_file, sawFile, cached, overlap,
                   dumped, lastWrite, published, readerVars, nRefresh, nRestart, concurrent, reply>>

\* a refresh that goes on to the replacement without saving
SaveOpenSkipsSave(t) ==
    /\ pc[t] = "save_open"
    /\ pc' = [pc EXCEPT ![t] = "ok_lock"]
    /\ dumped' = [dumped EXCEPT ![t] =
                     Some(FileObject(data[t][1], refreshed_at[t][1]))]
    /\ UNCHANGED <<cache, cache_lock, cache_file, clock, exc, rows, data,
                   refreshed_at, sawFile, cached, overlap, lastWrite, published,
                   readerVars, nRefresh, nRestart, concurrent, reply>>

\* open(CACHE_FILE, "w"): truncates the file in place, or raises OSError
SaveOpen(t) ==
    /\ pc[t] = "save_open"
    /\ \/ /\ Raise(t, "OSError")
          /\ UNCHANGED <<cache_file, overlap>>
       \/ /\ cache_file' = PartialFile
          /\ overlap' = Fresh(FALSE)
          /\ pc' = [pc EXCEPT ![t] = "save_dump"]
          /\ exc' = exc
    /\ UNCHANGED <<cache, cache_lock, clock, rows, data, refreshed_at, sawFile,
                   cached, dumped, lastWrite, published, readerVars, nRefresh, nRestart, concurrent, reply>>

\* threads that hold the file open for writing besides t
OtherWriters(t) == {u \in Threads \ {t} : pc[u] = "save_dump"}

\* json.dump(..., f) and the close of the with block: the object is written
\* from offset 0 of the file as it is now; bytes another writer put there
\* since this thread's open may remain behind it.  Or the write raises.
SaveDump(t) ==
    /\ pc[t] = "save_dump"
    /\ overlap' = [u \in Threads |-> u \in OtherWriters(t) \/ (u # t /\ overlap[u])]
    /\ \/ /\ Raise(t, "OSError")
          /\ cache_file' \in
                (IF overlap[t] THEN {cache_file} ELSE {}) \cup {PartialFile}
          /\ dumped' = dumped
       \/ LET obj == FileObject(data[t][1], refreshed_at[t][1])
          IN  /\ cache_file' \in
                    (IF overlap[t] THEN {PartialFile} ELSE {})
                        \cup {ValidFile(obj)}
              /\ dumped' = [dumped EXCEPT ![t] = Some(obj)]
              /\ pc' = [pc EXCEPT ![t] = "ok_lock"]
              /\ exc' = exc
    /\ UNCHANGED <<cache, cache_lock, clock, rows, data, refreshed_at, sawFile,
                   cached, lastWrite, published, readerVars, nRefresh, nRestart, concurrent, reply>>

\* with _cache_lock: (entering)
Acquire(t, from, to) ==
    /\ pc[t] = from
    /\ cache_lock = Free
    /\ cache_lock' = t
    /\ pc' = [pc EXCEPT ![t] = to]
    /\ UNCHANGED <<cache, cache_file, clock, locals, lastWrite, published, readerVars,
                   nRefresh, nRestart, concurrent, reply>>

\* _cache = snap inside the with block, the release at its end, the return
Publish(t, from, snap) ==
    /\ pc[t] = from
    /\ cache' = Replace(cache, snap)
    /\ cache_lock' = Free
    /\ lastWrite' = snap
    /\ published' = published \cup {snap}
    /\ pc' = [pc EXCEPT ![t] = "done"]
    /\ Forget(t)
    /\ UNCHANGED <<cache_file, clock, readerVars, nRefresh, nRestart, concurrent, reply>>

\* the in-memory replacement moved in front of the save
AcquireOkBeforeSave(t) == Acquire(t, "save_open", "ok_set")

AcquireOk(t) == Acquire(t, "ok_lock", "ok_set")

SetOk(t) == Publish(t, "ok_set", OkSnapshot(data[t][1], refreshed_at[t][1]))

\* the except clause without the fallback: always the error snapshot
HandlerBranchNoFallback(exists) == "err_lock"

\* the branch the except clause takes on os.path.exists(CACHE_FILE)
HandlerBranch(exists) == IF exists THEN "load" ELSE "err_lock"

\* an except clause that empties the file it finds
HandlerClearsFile(t) ==
    /\ pc[t] = "handler"
    /\ sawFile' = [sawFile EXCEPT ![t] = Exists(cache_file)]
    /\ pc' = [pc EXCEPT ![t] = HandlerBranch(Exists(cache_file))]
    /\ cache_file' = IF Exists(cache_file) THEN PartialFile ELSE cache_file
    /\ UNCHANGED <<cache, cache_lock, clock, exc, rows, data,
                   refreshed_at, cached, overlap, dumped, lastWrite, published,
                   readerVars, nRefresh, nRestart, concurrent, reply>>

\* except Exception as e: ... if os.path.exists(CACHE_FILE):
Handler(t) ==
    /\ pc[t] = "handler"
    /\ sawFile' = [sawFile EXCEPT ![t] = Exists(cache_file)]
    /\ pc' = [pc EXCEPT ![t] = HandlerBranch(Exists(cache_file))]
    /\ UNCHANGED <<cache, cache_lock, cache_file, clock, exc, rows, data,
                   refreshed_at, cached, overlap, dumped, lastWrite, published,
                   readerVars, nRefresh, nRestart, concurrent, reply>>

\* with open(CACHE_FILE) as f: cached = json.load(f).  Content that is not
\* one complete JSON object raises out of the except clause and out of
\* refresh_cache().
LoadFile(t) ==
    /\ pc[t] = "load"
    /\ IF cache_file.state = "valid"
       THEN /\ cached' = [cached EXCEPT ![t] = cache_file.content]
            /\ pc' = [pc EXCEPT ![t] = "stale_lock"]
            /\ UNCHANGED <<exc, rows, data, refreshed_at, sawFile, overlap,
                           dumped>>
       ELSE /\ pc' = [pc EXCEPT ![t] = "raised"]
            /\ Forget(t)
    /\ UNCHANGED <<cache, cache_lock, cache_file, clock, lastWrite, published, readerVars,
                   nRefresh, nRestart, concurrent, reply>>

\* the lock taken before the fallback file is read
AcquireStaleBeforeLoad(t) == Acquire(t, "load", "load")

AcquireStale(t) == Acquire(t, "stale_lock", "stale_set")

SetStale(t) == Publish(t, "stale_set", StaleSnapshot(cached[t][1], exc[t]))

AcquireErr(t) == Acquire(t, "err_lock", "err_set")

SetErr(t) == Publish(t, "err_set", ErrorSnapshot(exc[t]))

refresh_cache(t) ==
    \/ QuerySource(t) \/ AggregateRows(t) \/ SaveOpen(t) \/ SaveDump(t)
    \/ AcquireOk(t) \/ SetOk(t) \/ Handler(t) \/ LoadFile(t)
    \/ AcquireStale(t) \/ SetStale(t) \/ AcquireErr(t) \/ SetErr(t)

\* ------------------------------------------- schedule_refresh, force_refresh
\* after refresh_cache() returned: threading.Timer(6 h, schedule_refresh)
Rearm ==
    /\ pc[Sched] = "done"
    /\ pc' = [pc EXCEPT ![Sched] = "armed"]
    /\ UNCHANGED <<cache, cache_lock, cache_file, clock, locals, lastWrite, published,
                   readerVars, nRefresh, nRestart, concurrent, reply>>

\* the timer fires: schedule_refresh() runs refresh_cache() again
TimerFire ==
    /\ pc[Sched] = "armed"
    /\ nRefresh < MaxRefresh
    /\ Enter(Sched)
    /\ UNCHANGED <<cache, cache_lock, cache_file, clock, lastWrite, published, readerVars,
                   nRestart>>

\* the thread POST /api/refresh starts next: threads that ended are gone
NextForced == IF pc["force1"] \in NotRunning THEN "force1" ELSE "force2"

\* POST /api/refresh that also cancels a pending timer
force_refreshCancelsTimer ==
    /\ pc[NextForced] \in NotRunning
    /\ nRefresh < MaxRefresh
    /\ pc' = [pc EXCEPT ![NextForced] = "query",
                        ![Sched] = IF @ = "armed" THEN "done" ELSE @]
    /\ nRefresh' = nRefresh + 1
    /\ concurrent' = (concurrent \/ \E u \in Threads \ {NextForced} :
                                        pc[u] \notin NotRunning)
    /\ UNCHANGED <<cache, cache_lock, cache_file, clock, locals, lastWrite, published,
                   readerVars, nRestart, reply>>

\* POST /api/refresh: threading.Thread(target=refresh_cache).start()
force_refresh ==
    /\ pc[NextForced] \in NotRunning
    /\ nRefresh < MaxRefresh
    /\ Enter(NextForced)
    /\ UNCHANGED <<cache, cache_lock, cache_file, clock, lastWrite, published, readerVars,
                   nRestart>>

\* ------------------------------------------------------------ read handlers
\* GET /api/overweights: with _cache_lock (entering)
OwAcquire ==
    /\ rpc["overweights"] = "idle"
    /\ cache_lock = Free
    /\ cache_lock' = "overweights"
    /\ rpc' = [rpc EXCEPT !["overweights"] = "copy"]
    /\ UNCHANGED <<cache, cache_file, clock, threadVars, lastWrite, published, owCache,
                   hStatus, hRefreshed, nRefresh, nRestart, concurrent, reply>>

\* cache = dict(_cache), and the release
OwCopy ==
    /\ rpc["overweights"] = "copy"
    /\ owCache' = Some(cache)
    /\ cache_lock' = Free
    /\ rpc' = [rpc EXCEPT !["overweights"] = "respond"]
    /\ UNCHANGED <<cache, cache_file, clock, threadVars, lastWrite, published, hStatus,
                   hRefreshed, nRefresh, nRestart, concurrent, reply>>

\* the reply of overweights() with 200 kept for status "ok" only
OverweightsResponseOkOnly(c) ==
    IF c.status = "initializing"
    THEN [code |-> 202, status |-> "initializing", message |-> Some("loading"),
          refreshed_at |-> None, product_count |-> None,
          cache_status |-> None, data |-> None]
    ELSE IF c.status # "ok"
    THEN [code |-> 500, status |-> "error",
          message |-> IF c.error = None THEN Some("Unknown error") ELSE c.error,
          refreshed_at |-> None, product_count |-> None,
          cache_status |-> None, data |-> None]
    ELSE [code |-> 200, status |-> "ok", message |-> None,
          refreshed_at |-> c.refreshed_at,
          product_count |-> Some(IF c.product_count = None
                                 THEN 0 ELSE c.product_count[1]),
          cache_status |-> Some(c.status), data |-> c.data]

\* the reply overweights() builds from its copy c: the HTTP code and the
\* body, keys the body does not carry being None; cache.get("error",
\* "Unknown error") and cache.get("product_count", 0) default a missing key
OverweightsResponse(c) ==
    IF c.status = "initializing"
    THEN [code |-> 202, status |-> "initializing", message |-> Some("loading"),
          refreshed_at |-> None, product_count |-> None,
          cache_status |-> None, data |-> None]
    ELSE IF c.status = "error" /\ c.data = None
    THEN [code |-> 500, status |-> "error",
          message |-> IF c.error = None THEN Some("Unknown error") ELSE c.error,
          refreshed_at |-> None, product_count |-> None,
          cache_status |-> None, data |-> None]
    ELSE [code |-> 200, status |-> "ok", message |-> None,
          refreshed_at |-> c.refreshed_at,
          product_count |-> Some(IF c.product_count = None
                                 THEN 0 ELSE c.product_count[1]),
          cache_status |-> Some(c.status), data |-> c.data]

\* return jsonify(...): the request ends
OwRespond ==
    /\ rpc["overweights"] = "respond"
    /\ owCache' = None
    /\ rpc' = [rpc EXCEPT !["overweights"] = "idle"]
    /\ UNCHANGED <<cache, cache_lock, cache_file, clock, threadVars, lastWrite, published,
                   hStatus, hRefreshed, nRefresh, nRestart, concurrent, reply>>

\* health() reading _cache without taking the lock
HealthAcquireNoLock ==
    /\ rpc["health"] = "idle"
    /\ rpc' = [rpc EXCEPT !["health"] = "status"]
    /\ UNCHANGED <<cache, cache_lock, cache_file, clock, threadVars, lastWrite,
                   published, owCache, hStatus, hRefreshed, nRefresh, nRestart, concurrent, reply>>

\* GET /health: with _cache_lock (entering)
HealthAcquire ==
    /\ rpc["health"] = "idle"
    /\ cache_lock = Free
    /\ cache_lock' = "health"
    /\ rpc' = [rpc EXCEPT !["health"] = "status"]
    /\ UNCHANGED <<cache, cache_file, clock, threadVars, lastWrite, published, owCache,
                   hStatus, hRefreshed, nRefresh, nRestart, concurrent, reply>>

\* cache_status = _cache.get("status", "unknown")
HealthStatus ==
    /\ rpc["health"] = "status"
    /\ hStatus' = Some(cache.status)
    /\ rpc' = [rpc EXCEPT !["health"] = "refreshed_at"]
    /\ UNCHANGED <<cache, cache_lock, cache_file, clock, threadVars, lastWrite, published,
                   owCache, hRefreshed, nRefresh, nRestart, concurrent, reply>>

\* refreshed_at = _cache.get("refreshed_at"), and the release
HealthRefreshed ==
    /\ rpc["health"] = "refreshed_at"
    /\ hRefreshed' = Some(cache.refreshed_at)
    /\ cache_lock' = Free
    /\ rpc' = [rpc EXCEPT !["health"] = "respond"]
    /\ UNCHANGED <<cache, cache_file, clock, threadVars, lastWrite, published, owCache,
                   hStatus, nRefresh, nRestart, concurrent, reply>>

\* return jsonify(...): the request ends
HealthRespond ==
    /\ rpc["health"] = "respond"
    /\ hStatus' = None
    /\ hRefreshed' = None
    /\ rpc' = [rpc EXCEPT !["health"] = "idle"]
    /\ UNCHANGED <<cache, cache_lock, cache_file, clock, threadVars, lastWrite, published,
                   owCache, nRefresh, nRestart, concurrent, reply>>

overweights == OwAcquire \/ OwCopy \/ OwRespond

health == HealthAcquire \/ HealthStatus \/ HealthRefreshed \/ HealthRespond

\* ----------------------------------------------------------------- process
\* the process is killed at any point and started again: every thread and
\* _cache are gone, CACHE_FILE stays as it was left
Restart ==
    /\ nRestart < MaxRestart
    /\ nRefresh < MaxRefresh
    /\ cache' = InitCache
    /\ cache_lock' = Free
    /\ pc' = BootPc
    /\ exc' = Fresh("none")
    /\ rows' = Fresh(<<>>)
    /\ data' = Fresh(None)
    /\ refreshed_at' = Fresh(None)
    /\ sawFile' = Fresh(FALSE)
    /\ cached' = Fresh(None)
    /\ overlap' = Fresh(FALSE)
    /\ dumped' = Fresh(None)
    /\ lastWrite' = InitCache
    /\ published' = {InitCache}
    /\ rpc' = [r \in Readers |-> "idle"]
    /\ owCache' = None
    /\ hStatus' = None
    /\ hRefreshed' = None
    /\ nRestart' = nRestart + 1
    /\ concurrent' = FALSE
    /\ nRefresh' = nRefresh + 1
    /\ UNCHANGED <<cache_file, clock, reply>>

\* GET /api/overweights of part_000: query and aggregate in the request
\* itself; any exception gives the 500 reply
overweights_uncached ==
    /\ reply = None
    /\ \E rs \in RowSeqs :
          reply' = IF AggregateRaises(rs)
                   THEN Some([code |-> 500, status |-> "error", data |-> None])
                   ELSE Some([code |-> 200, status |-> "ok",
                              data |-> Some(AggregateUncached(rs))])
    /\ UNCHANGED <<cache, cache_lock, cache_file, clock, threadVars, lastWrite,
                   published, readerVars, nRefresh, nRestart, concurrent>>

\* return jsonify(...) of part_000: the request ends
uncached_return ==
    /\ reply # None
    /\ reply' = None
    /\ UNCHANGED <<cache, cache_lock, cache_file, clock, threadVars, lastWrite,
                   published, readerVars, nRefresh, nRestart, concurrent>>

Next ==
    \/ \E t \in Threads : refresh_cache(t)
    \/ Rearm
    \/ TimerFire
    \/ force_refresh
    \/ overweights
    \/ health
    \/ Restart

Spec == Init /\ [][Next]_vars

\* the aggregation step on its own: refresh_cache() has fetched any bounded
\* row sequence and runs its loop
AggInit ==
    /\ cache = InitCache
    /\ cache_lock = Free
    /\ pc = [BootPc EXCEPT ![Sched] = "aggregate"]
    /\ exc = Fresh("none")
    /\ rows \in {[Fresh(<<>>) EXCEPT ![Sched] = rs] : rs \in RowSeqs}
    /\ data = Fresh(None)
    /\ refreshed_at = Fresh(None)
    /\ sawFile = Fresh(FALSE)
    /\ cached = Fresh(None)
    /\ overlap = Fresh(FALSE)
    /\ dumped = Fresh(None)
    /\ lastWrite = InitCache
    /\ published = {InitCache}
    /\ rpc = [r \in Readers |-> "idle"]
    /\ owCache = None
    /\ hStatus = None
    /\ hRefreshed = None
    /\ cache_file = AbsentFile
    /\ clock = 0
    /\ nRefresh = 1
    /\ nRestart = 0
    /\ concurrent = FALSE
    /\ reply = None

AggNext == AggregateRows(Sched)

AggSpec == AggInit /\ [][AggNext]_vars

\* the cache-less program of part_000 serving requests
UncachedNext == overweights_uncached \/ uncached_return

UncachedSpec == Init /\ [][UncachedNext]_vars

\* ================================================================== claims
\* thread t of the running process takes a step
Step(t) == pc'[t] # pc[t] /\ nRestart' = nRestart

\* str(e) of a failed data source call and of a failed aggregation
SourceFailures == {"SourceUnavailable", "AttributeError"}

\* C1: a refresh whose data source call or aggregation failed while the
\* durable file exists goes on from the load to publish a Stale snapshot
\* carrying exactly the file's data, refreshed_at and product_count and the
\* failure message; it neither raises nor publishes Error.
C1_StaleFromExistingFile ==
    [][\A t \in Threads :
          (Step(t) /\ exc[t] \in SourceFailures /\ sawFile[t]) =>
              /\ pc[t] = "load" =>
                    /\ pc'[t] = "stale_lock"
                    /\ cached'[t] = cache_file.content
              /\ pc[t] = "stale_set" =>
                    cache' = [data          |-> cached[t][1].data,
                              refreshed_at  |-> cached[t][1].refreshed_at,
                              product_count |-> cached[t][1].product_count,
                              status        |-> "stale",
                              error         |-> Some(exc[t])]]_vars

\* C2: a refresh whose data source call failed and whose fallback test found
\* no durable file replaces the snapshot by status Error, data None,
\* refreshed_at None and the failure message, and returns.
C2_ErrorWhenNoFile ==
    [][\A t \in Threads :
          (Step(t) /\ exc[t] = "SourceUnavailable") =>
              /\ (pc[t] = "handler" /\ ~Exists(cache_file)) =>
                    pc'[t] = "err_lock"
              /\ pc[t] = "err_lock" => pc'[t] = "err_set"
              /\ pc[t] = "err_set" =>
                    /\ pc'[t] = "done"
                    /\ cache' = [data          |-> None,
                                 refreshed_at  |-> None,
                                 product_count |-> None,
                                 status        |-> "error",
                                 error         |-> Some("SourceUnavailable")]]_vars

\* first-ever startup: the source failed, no file, the refresh has returned
C2_Witness ==
    /\ pc[Sched] = "done"
    /\ cache_file = AbsentFile
    /\ cache.status = "error"
    /\ cache.error = Some("SourceUnavailable")

\* C3: a refresh that has aggregated its data is never diverted by a failing
\* save: it stays on the path that publishes that data as Ok.
C3_SaveFailureOnlyLogged ==
    \A t \in Threads :
        data[t] # None => pc[t] \in {"save_open", "save_dump", "ok_lock", "ok_set"}

\* C4: when the source failed and the load finds the file unparsable, the
\* refresh goes on to publish the Error snapshot instead of raising.
C4_UnparsableFileMeansError ==
    [][\A t \in Threads :
          (Step(t) /\ pc[t] = "load" /\ exc[t] = "SourceUnavailable"
                   /\ cache_file.state = "partial") =>
              pc'[t] = "err_lock"]_vars

\* C5: at every moment the scheduled refresh is running or its timer is
\* armed: schedule_refresh never ends without a successor.
C5_ScheduleAlive == pc[Sched] \notin {"raised", "idle"}

\* C6: the fallback load of a refresh whose source failed never reads a
\* truncated or half-written file, whatever a saving refresh is doing.
C6_FallbackLoadNeverSeesPartialFile ==
    [][\A t \in Threads :
          (Step(t) /\ pc[t] = "load" /\ exc[t] \in SourceFailures) =>
              cache_file.state # "partial"]_vars

\* the object json.dump has to have written for snapshot s
DurableCopy(s) ==
    [data |-> s.data, refreshed_at |-> s.refreshed_at,
     product_count |-> s.product_count]

\* C7: whenever _cache is replaced by an Ok snapshot, the replacing refresh
\* has completed the write of that same data, refreshed_at and product_count
\* to the durable file before.
C7_SaveBeforeOk ==
    [][(cache' # cache /\ cache'.status = "ok") =>
          \E t \in Threads :
              /\ pc[t] = "ok_set"
              /\ pc'[t] = "done"
              /\ dumped[t] = Some(DurableCopy(cache'))]_vars

\* a reader holds a copy of an Ok snapshot
C7_Witness ==
    /\ rpc["overweights"] = "respond"
    /\ owCache # None
    /\ owCache[1].status = "ok"

\* C8: what a read handler returns comes from one snapshot _cache has held:
\* the copy of overweights() is such a snapshot, and the status and
\* refreshed_at of health() are those of one such snapshot.
C8_ReadsOneSnapshot ==
    /\ rpc["overweights"] = "respond" => owCache[1] \in published
    /\ rpc["health"] = "respond" =>
          \E s \in published :
              /\ hStatus = Some(s.status)
              /\ hRefreshed = Some(s.refreshed_at)

\* health() answers while a refresh is between its lock and its replacement,
\* after the snapshot has already been replaced once
C8_Witness ==
    /\ rpc["health"] = "respond"
    /\ rpc["overweights"] = "respond"
    /\ Cardinality(published) > 1
    /\ \E t \in Threads : pc[t] \in {"ok_lock", "stale_lock", "err_lock"}

AllReturned == \A t \in Threads : pc[t] \in NotRunning

\* the step that ends a with _cache_lock block, of whoever is inside one
LeaveLock ==
    \/ \E t \in Threads : SetOk(t) \/ SetStale(t) \/ SetErr(t)
    \/ OwCopy
    \/ HealthStatus
    \/ HealthRefreshed

\* how far a thread is through refresh_cache()
Rank(p) ==
    CASE p = "query" -> 1
      [] p = "aggregate" -> 2
      [] p = "save_open" -> 3
      [] p = "save_dump" -> 4
      [] p \in {"ok_lock", "handler"} -> 5
      [] p \in {"ok_set", "load"} -> 6
      [] p \in {"stale_lock", "err_lock"} -> 7
      [] p \in {"stale_set", "err_set"} -> 8
      [] OTHER -> 9

C10_NeverEmptiedWhileFileExists ==
    [][(cache.data # None /\ cache'.status = "error") =>
          cache_file.state # "valid"]_vars

\* C10 amended: once _cache holds data, a failed refresh replaces it by the
\* empty Error snapshot only if its own os.path.exists test found no file.
C10_EmptiedOnlyIfNoFileSeen ==
    [][(cache.data # None /\ cache'.status = "error") =>
          \E t \in Threads :
              /\ pc[t] = "err_set"
              /\ pc'[t] = "done"
              /\ ~sawFile[t]]_vars

\* the Error snapshot is in _cache after a snapshot with data has been
C10_Witness ==
    /\ cache.status = "error"
    /\ \E s \in published : s.data # None

\* C11: the reply overweights() sends for the copy it took is 202 exactly
\* for status initializing, 500 exactly for status error without data, and
\* 200 exactly for ok and stale, then carrying the copy's status,
\* refreshed_at, product_count and data.
C11_ResponseCodes ==
    rpc["overweights"] = "respond" =>
        LET c == owCache[1]
            r == OverweightsResponse(c)
        IN  /\ r.code \in {200, 202, 500}
            /\ r.code = 202 <=> c.status = "initializing"
            /\ r.code = 500 <=> (c.status = "error" /\ c.data = None)
            /\ r.code = 200 <=> c.status \in {"ok", "stale"}
            /\ r.code = 200 =>
                  /\ r.cache_status = Some(c.status)
                  /\ r.refreshed_at = c.refreshed_at
                  /\ r.product_count = c.product_count
                  /\ r.data = c.data

\* overweights() answers from a Stale snapshot
C11_Witness ==
    /\ rpc["overweights"] = "respond"
    /\ owCache[1].status = "stale"
    /\ OverweightsResponse(owCache[1]).code = 200

Trimmed(s) == s = <<>> \/ (s[1] # " " /\ s[Len(s)] # " ")

\* the text s from its first to its last character that is not a blank
Unpadded(s) ==
    LET solid == {i \in 1..Len(s) : s[i] # " "}
    IN  IF solid = {} THEN <<>>
        ELSE SubSeq(s, CHOOSE i \in solid : \A j \in solid : i <= j,
                       CHOOSE i \in solid : \A j \in solid : i >= j)

\* C13: when the aggregation step of refresh_cache() succeeds on the rows it
\* fetched, the keys of the mapping are exactly the trimmed product keys of
\* those rows, and the value of each key is the entries of all rows with that
\* trimmed key, one per row, in input order; rows whose keys differ only by
\* padding share a group.
C13_GroupsByTrimmedKeyInOrder ==
    [][(pc[Sched] = "aggregate" /\ pc'[Sched] = "save_open") =>
          LET in  == rows[Sched]
              out == data'[Sched][1]
              group(k) == SelectSeq(in, LAMBDA r : Unpadded(r.product[1]) = k)
          IN  /\ DOMAIN out = {Unpadded(in[i].product[1]) : i \in 1..Len(in)}
              /\ \A k \in DOMAIN out :
                    /\ Trimmed(k)
                    /\ Len(out[k]) = Len(group(k))
                    /\ \A j \in 1..Len(out[k]) : out[k][j] = Entry(group(k)[j])]_vars

\* two rows of the input have been put in one group
C13_Witness ==
    /\ pc[Sched] = "save_open"
    /\ data[Sched] # None
    /\ \E k \in DOMAIN data[Sched][1] : Len(data[Sched][1][k]) = 2

\* C14: no entry the aggregation puts in a reply has a null avg_overweight,
\* avg_value or avg_target.
C14_NoNullNumericField ==
    (reply # None /\ reply[1].data # None) =>
        \A k \in DOMAIN reply[1].data[1] :
            \A j \in 1..Len(reply[1].data[1][k]) :
                LET e == reply[1].data[1][k][j]
                IN  /\ e.avg_overweight # None
                    /\ e.avg_value # None
                    /\ e.avg_target # None

\* the positions at which a refresh is about to query the source, aggregate,
\* write the file, test for it or read it
Blocking == {"query", "aggregate", "save_open", "save_dump", "handler", "load"}

\* C15: whoever holds _cache_lock is at a statement that only copies or
\* replaces the snapshot: a refresh at one of its three assignments to
\* _cache, overweights() at its dict copy, health() at one of its two reads;
\* never at the query, the aggregation or a file operation.
C15_LockHeldOnlyForCopyOrReplace ==
    /\ \A t \in Threads : cache_lock = t =>
          /\ pc[t] \in {"ok_set", "stale_set", "err_set"}
          /\ pc[t] \notin Blocking
    /\ cache_lock = "overweights" => rpc["overweights"] = "copy"
    /\ cache_lock = "health" => rpc["health"] \in {"status", "refreshed_at"}
    /\ \A r \in Readers : cache_lock # r => rpc[r] \in {"idle", "respond"}

\* a refresh holds the lock while another one is inside a file operation
C15_Witness ==
    \E t \in Threads :
        /\ cache_lock = t
        /\ \E u \in Threads \ {t} : pc[u] \in {"save_dump", "load"}

\* C16: every change of CACHE_FILE is a step of a refresh that is at its
\* save with rows fetched and aggregated and no exception caught; a refresh
\* that failed before its save, a restart and the read handlers leave the
\* file as it is, and what overweights() takes is the in-memory snapshot.
C16_FileWrittenOnlyBySuccessfulRefresh ==
    [][/\ cache_file' # cache_file =>
             \E t \in Threads :
                 /\ Step(t)
                 /\ pc[t] \in {"save_open", "save_dump"}
                 /\ data[t] # None
                 /\ exc[t] = "none"
       /\ (rpc' # rpc \/ nRestart' # nRestart) => cache_file' = cache_file
       /\ owCache' # owCache => owCache' \in {None, Some(cache)}]_vars

\* a refresh whose source failed is about to publish the file's content,
\* the file still being the complete object an earlier refresh wrote
C16_Witness ==
    \E t \in Threads :
        /\ pc[t] = "stale_set"
        /\ exc[t] \in SourceFailures
        /\ cache_file = ValidFile(cached[t][1])

\* C17: the status of _cache fixes its shape: with "error" there is no data
\* and no refreshed_at, with "ok" there is data and no error, with "stale"
\* there is an error message; and a 200 reply of overweights() never has
\* cache_status "error".
C17_StatusDeterminesShape ==
    /\ cache.status = "error" => (cache.data = None /\ cache.refreshed_at = None)
    /\ cache.status = "ok" => (cache.data # None /\ cache.error = None)
    /\ cache.status = "stale" => cache.error # None
    /\ rpc["overweights"] = "respond" =>
          LET r == OverweightsResponse(owCache[1])
          IN  r.code = 200 => r.cache_status # Some("error")

\* _cache holds a stale snapshot: data from the file and the failure message
C17_Witness ==
    /\ cache.status = "stale"
    /\ cache.data # None
    /\ cache.error \in {Some(e) : e \in SourceFailures}

\* C18: whenever _cache has status "ok" or "stale", its product_count is the
\* number of product keys of its data, also when the data came from a file
\* an earlier process wrote.
C18_ProductCountIsKeyCount ==
    cache.status \in {"ok", "stale"} =>
        /\ cache.data # None
        /\ cache.product_count = Some(Cardinality(DOMAIN cache.data[1]))

\* after a restart the process serves the file of the earlier process
C18_Witness ==
    /\ nRestart = 1
    /\ cache.status = "stale"
    /\ cache.product_count = Some(1)

\* C19 as stated: whenever no refresh is in progress and _cache has status
\* "ok", CACHE_FILE holds the data, refreshed_at and product_count of _cache.
C19_FileEqualsMemoryWhenOk ==
    (AllReturned /\ cache.status = "ok") =>
        cache_file = ValidFile(DurableCopy(cache))

\* C19 amended: whenever no refresh is in progress and _cache has status
\* "ok", CACHE_FILE exists, and if it parses it holds the data, refreshed_at
\* and product_count of an Ok snapshot this process has published; that
\* snapshot is _cache itself if no two refreshes of the process overlapped.
C19_FileHoldsAPublishedOkSnapshot ==
    (AllReturned /\ cache.status = "ok") =>
        /\ Exists(cache_file)
        /\ cache_file.state = "valid" =>
              /\ \E s \in published :
                    /\ s.status = "ok"
                    /\ cache_file = ValidFile(DurableCopy(s))
              /\ ~concurrent => cache_file = ValidFile(DurableCopy(cache))

\* two overlapping refreshes have both succeeded and the file holds the
\* snapshot of the one that published first
C19_Witness ==
    /\ AllReturned
    /\ cache.status = "ok"
    /\ cache_file.state = "valid"
    /\ cache_file # ValidFile(DurableCopy(cache))

\* C20 as stated: every replacement of _cache by a snapshot with data has a
\* refreshed_at not earlier than that of the snapshot it replaces.
C20_RefreshedAtNeverMovesBack ==
    [][(cache' # cache /\ cache'.data # None /\ cache.refreshed_at # None) =>
          cache'.refreshed_at[1] >= cache.refreshed_at[1]]_vars

\* C20 amended: as long as no two refreshes of the process have overlapped,
\* every replacement of _cache by a snapshot with data has a refreshed_at
\* not earlier than that of the snapshot it replaces.
C20_RefreshedAtNeverMovesBackIfSerial ==
    [][(~concurrent /\ cache' # cache /\ cache'.data # None
            /\ cache.refreshed_at # None) =>
          cache'.refreshed_at[1] >= cache.refreshed_at[1]]_vars

\* refreshes that never overlapped: the second successful one has replaced
\* the snapshot of the first
C20_Witness ==
    /\ ~concurrent
    /\ cache.status = "ok"
    /\ cache.refreshed_at = Some(2)
    /\ \E s \in published : s.status = "ok" /\ s.refreshed_at = Some(1)

====
